---- MODULE Spec2Model ----
(***************************************************************************)
(* Model of dev_scripts/copy_pokemon_backs.py: main() copies               *)
(* graphics/pokemon/<entity>/back.png into backs/back%04d.png, resizes     *)
(* each copy in place with ImageMagick and writes a caption next to it.    *)
(* The file system (source tree, destination directory) and the console    *)
(* are the state; main() is cut into steps at its statements.              *)
(***************************************************************************)
EXTENDS Integers, Sequences, FiniteSets, TLC

(* ---------------------------------------------------------------- bounds *)

\* At most this many entries directly under graphics/pokemon.
MaxEntries == 3
\* main() is run at most this many times in succession.
MaxRuns == 2

(* ------------------------------------------------------------ environment *)

\* Entry names under graphics/pokemon, as sequences of code points:
\* "10", "2", "B", "a". Code point order is "10" < "2" < "B" < "a".
EntryNames == { <<49, 48>>, <<50>>, <<66>>, <<97>> }

\* What an entry of graphics/pokemon can be: a plain file, or a directory
\* holding nothing, a regular file back.png, a directory named back.png,
\* or back.png only below mega/.
EntryShapes == { "file", "dir_empty", "dir_back", "dir_backdir", "dir_mega" }

\* The size of a sprite as it lies in the source tree.
SpriteSize == <<64, 64>>

NoOrigin == << >>

Image(origin, size) ==
    [type |-> "image", origin |-> origin, size |-> size, data |-> ""]
Text(data) ==
    [type |-> "text", origin |-> NoOrigin, size |-> <<0, 0>>, data |-> data]
Stale == [type |-> "stale", origin |-> NoOrigin, size |-> <<0, 0>>, data |-> "old"]

FileName(stem, num, ext) == [stem |-> stem, num |-> num, ext |-> ext]

\* What backs/ may hold before a run: an unrelated file and a leftover image
\* with a high number.
StaleNames == { FileName("notes", << >>, "txt"), FileName("back", <<0, 0, 0, 4>>, "png") }

\* The executables shutil.which may find.
ToolNames == { "magick", "convert" }

\* The text a write_text that raised may leave at its path, when it leaves a
\* file at all: nothing (the file was created and the write failed) or a
\* part of the text.
CutTexts == { "", "pixback creature" }

(* ------------------------------------------------------- program constants *)

TARGET_SIZE == <<512, 512>>
BACK_CAPTION == "pixback creature, back view, pixel art sprite"

(* ------------------------------------------------------------------ state *)

VARIABLES
    srcKind,     \* graphics/pokemon: "absent", "file" or "dir"
    src,         \* entry name -> shape, the entries of graphics/pokemon
    destKind,    \* backs: "absent", "file" or "dir"
    destFiles,   \* file name -> content, the entries of backs/
    pc,          \* position in main()
    status,      \* "none", "0" or "1" (what main returned) or "exception"
    fault,       \* the statement that raised, "none" if none did
    subfolders,  \* the sorted list of line 52
    pos,         \* position of the for loop in subfolders
    index,       \* line 57
    copied,      \* line 58
    out,         \* the lines printed so far
    failed,      \* indices whose resize_nearest call returned False
    runs,        \* number of the current run
    src0,        \* the source tree when the current run started
    prev         \* how the previous run ended, with its outputs if it returned 0

vars == << srcKind, src, destKind, destFiles, pc, status, fault, subfolders,
           pos, index, copied, out, failed, runs, src0, prev >>

(* ------------------------------------------------------------ formatting *)

RECURSIVE Digits(_)
\* The decimal digits of n >= 0, most significant first.
Digits(n) == IF n < 10 THEN << n >> ELSE Digits(n \div 10) \o << n % 10 >>

RECURSIVE PadZero(_, _)
\* ds padded on the left with zeros to at least w digits (format spec 0wd).
PadZero(ds, w) == IF Len(ds) >= w THEN ds ELSE PadZero(<< 0 >> \o ds, w)

\* f"back{index:04d}.png" and f"back{index:04d}.txt"
DestName(i, ext) == FileName("back", PadZero(Digits(i), 4), ext)

(* ------------------------------------------------------ paths and sorting *)

RECURSIVE StrLess(_, _)
\* a < b for two names: code point by code point, a proper prefix first.
StrLess(a, b) ==
    IF a = << >> THEN b # << >>
    ELSE IF b = << >> THEN FALSE
    ELSE IF Head(a) # Head(b) THEN Head(a) < Head(b)
    ELSE StrLess(Tail(a), Tail(b))

\* A mutant of PathLess: shorter names first, then by code point.
PathLessByLength(a, b) == Len(a) < Len(b) \/ (Len(a) = Len(b) /\ StrLess(a, b))

\* Path.__lt__ for two children of graphics/pokemon: their names decide.
PathLess(a, b) == StrLess(a, b)

RECURSIVE Insert(_, _)
Insert(x, s) ==
    IF s = << >> THEN << x >>
    ELSE IF PathLess(x, Head(s)) THEN << x >> \o s
    ELSE << Head(s) >> \o Insert(x, Tail(s))

RECURSIVE Sorted(_)
\* sorted(listing)
Sorted(listing) ==
    IF listing = << >> THEN << >> ELSE Insert(Head(listing), Sorted(Tail(listing)))

\* The orders in which iterdir() may yield the members of S.
Listings(S) ==
    { l \in [1..Cardinality(S) -> S] : \A i, j \in DOMAIN l : i # j => l[i] # l[j] }

\* p.is_dir() for the entry named n of graphics/pokemon
IsDir(tree, n) == tree[n] # "file"

\* A mutant of BackIsFile: back.png is also looked for below mega/.
BackIsFileRecursive(tree, n) == tree[n] \in { "dir_back", "dir_mega" }

\* (subfolder / "back.png").is_file()
BackIsFile(tree, n) == tree[n] = "dir_back"

(* ----------------------------------------------------------- file system *)

EmptyDir == [f \in {} |-> Stale]

\* dir with file f written (created or replaced) with content c
WriteFile(dir, f, c) == [g \in DOMAIN dir \cup {f} |-> IF g = f THEN c ELSE dir[g]]

\* dir without the files of S
RemoveFiles(dir, S) == [g \in DOMAIN dir \ S |-> dir[g]]

\* The names of the files of dir with extension ext
NamesWithExt(dir, ext) == { f \in DOMAIN dir : f.ext = ext }

(* ---------------------------------------------------------------- console *)

NoName == FileName("", << >>, "")
NoEntry == << >>
\* A printed line: its kind, the source entry and output name it tells of, and
\* the count it tells (the summary's).
Line(kind, entry, name, n) == [kind |-> kind, entry |-> entry, name |-> name, n |-> n]
LinesOf(kind) == { i \in DOMAIN out : out[i].kind = kind }

(* ------------------------------------------------------------------- Init *)

SourceTrees ==
    UNION { [S -> EntryShapes] : S \in { T \in SUBSET EntryNames : Cardinality(T) <= MaxEntries } }

NoRun == [status |-> "none", files |-> EmptyDir]

Init ==
    /\ srcKind \in { "absent", "file", "dir" }
    /\ src \in (IF srcKind = "dir" THEN SourceTrees ELSE { EmptyDir })
    /\ destKind \in { "absent", "file", "dir" }
    /\ destFiles \in (IF destKind = "dir"
                        THEN UNION { [S -> { Stale }] : S \in SUBSET StaleNames }
                        ELSE { EmptyDir })
    /\ pc = "start"
    /\ status = "none"
    /\ fault = "none"
    /\ subfolders = << >>
    /\ pos = 0
    /\ index = 0
    /\ copied = 0
    /\ out = << >>
    /\ failed = {}
    /\ runs = 1
    /\ src0 = [kind |-> srcKind, tree |-> src]
    /\ prev = NoRun

(* ------------------------------------------------------- external resize *)

\* shutil.which("magick") or shutil.which("convert"); "" stands for None
Which(onPath) ==
    IF "magick" \in onPath THEN "magick"
    ELSE IF "convert" \in onPath THEN "convert"
    ELSE ""

\* The effect of `<tool> path -filter point -resize WxH! path` on backs/:
\* with exit status 0 the image at path has exactly the size asked for,
\* with any other status it is left as it was.
RunTool(files, path, size, returncode) ==
    IF returncode = 0
      THEN [files EXCEPT ![path] = Image(files[path].origin, size)]
      ELSE files

\* A mutant of Warnings: the test of line 66 without its `not`.
WarningsInverted(ok, name) ==
    IF ok THEN << Line("warning", NoEntry, name, 0) >> ELSE << >>

\* Lines 66-67: the lines printed for an image whose resize returned ok.
Warnings(ok, name) ==
    IF ~ok THEN << Line("warning", NoEntry, name, 0) >> ELSE << >>

\* resize_nearest(path, size): the value returned and backs/ afterwards.
ResizeNearest(files, path, size, onPath, returncode) ==
    IF Which(onPath) = ""
      THEN [ok |-> FALSE, files |-> files]
      ELSE [ok |-> returncode = 0, files |-> RunTool(files, path, size, returncode)]

(* -------------------------------------------------------- steps of main() *)

\* The sprite lying at graphics/pokemon/<n>/back.png
SrcImage(n) == Image(n, SpriteSize)

\* A mutant of Copy2: the file is moved, not copied.
Move2(tree, files, n, name) ==
    [src |-> [tree EXCEPT ![n] = "dir_empty"], dest |-> WriteFile(files, name, SrcImage(n))]

\* shutil.copy2(back_src, dest_path): both trees afterwards.
Copy2(tree, files, n, name) ==
    [src |-> tree, dest |-> WriteFile(files, name, SrcImage(n))]

\* What a write_text that raised may leave at the caption's path: no file
\* (open failed), an empty or cut file (the write failed), the whole text
\* (close failed).
FailedWrites == { "nofile" } \cup CutTexts \cup { BACK_CAPTION }

Locals == << subfolders, pos, index, copied >>
Tree == << srcKind, src >>
Ghost == << runs, src0, prev >>

\* An uncaught exception raised by statement f ends the run.
Raise(f) ==
    /\ pc' = "done"
    /\ status' = "exception"
    /\ fault' = f

\* A mutant of SourceIsDir: exists() in place of is_dir().
SourceExists(kind) == kind # "absent"

\* Line 42: pokemon_dir.is_dir()
SourceIsDir(kind) == kind = "dir"

\* Lines 42-44: without the source directory, print an error and return 1.
CheckSource ==
    /\ pc = "start"
    /\ IF ~SourceIsDir(srcKind)
         THEN /\ out' = Append(out, Line("error", NoEntry, NoName, 0))
              /\ status' = "1"
              /\ pc' = "done"
         ELSE /\ pc' = "clean"
              /\ UNCHANGED << out, status >>
    /\ UNCHANGED << Tree, destKind, destFiles, fault, Locals, failed, Ghost >>

\* A mutant of CleanedFiles: the directory is emptied of nothing.
KeptFiles(kind, files) == files

\* Lines 47-48: backs after `if backs_dir.is_dir(): shutil.rmtree(backs_dir)`.
CleanedKind(kind) == IF kind = "dir" THEN "absent" ELSE kind
CleanedFiles(kind, files) == IF kind = "dir" THEN EmptyDir ELSE files

\* Lines 47-48.
Clean ==
    /\ pc = "clean"
    /\ destKind' = CleanedKind(destKind)
    /\ destFiles' = CleanedFiles(destKind, destFiles)
    /\ pc' = "mkdir"
    /\ UNCHANGED << Tree, status, fault, Locals, out, failed, Ghost >>

\* Line 48, rmtree raising (permissions, I/O): some of the files are gone.
CleanFails ==
    /\ pc = "clean"
    /\ destKind = "dir"
    /\ \E gone \in SUBSET DOMAIN destFiles :
         destFiles' = RemoveFiles(destFiles, gone)
    /\ Raise("rmtree")
    /\ UNCHANGED << Tree, destKind, Locals, out, failed, Ghost >>

\* Line 49: backs_dir.mkdir(parents=True), which raises FileExistsError when
\* the path exists (exist_ok is not given).
Mkdir ==
    /\ pc = "mkdir"
    /\ IF destKind = "absent"
         THEN /\ destKind' = "dir"
              /\ pc' = "enumerate"
              /\ UNCHANGED << status, fault >>
         ELSE /\ Raise("mkdir")
              /\ UNCHANGED destKind
    /\ UNCHANGED << Tree, destFiles, Locals, out, failed, Ghost >>

\* Lines 52-58: the sorted list of the direct subfolders, index and copied.
Enumerate ==
    /\ pc = "enumerate"
    /\ \E listing \in Listings({ n \in DOMAIN src : IsDir(src, n) }) :
         subfolders' = Sorted(listing)
    /\ pos' = 1
    /\ index' = 1
    /\ copied' = 0
    /\ pc' = "loop"
    /\ UNCHANGED << Tree, destKind, destFiles, status, fault, out, failed, Ghost >>

\* A mutant of Skip: a subfolder passed over takes a number all the same.
SkipCounting ==
    /\ pc = "loop"
    /\ pos <= Len(subfolders)
    /\ ~BackIsFile(src, subfolders[pos])
    /\ pos' = pos + 1
    /\ index' = index + 1
    /\ UNCHANGED << Tree, destKind, destFiles, pc, status, fault, subfolders,
                    copied, out, failed, Ghost >>

\* Lines 59-62: a subfolder without a regular file back.png is passed over.
Skip ==
    /\ pc = "loop"
    /\ pos <= Len(subfolders)
    /\ ~BackIsFile(src, subfolders[pos])
    /\ pos' = pos + 1
    /\ UNCHANGED << Tree, destKind, destFiles, pc, status, fault, subfolders,
                    index, copied, out, failed, Ghost >>

\* Lines 59-64: a subfolder with back.png is taken up.
Enter ==
    /\ pc = "loop"
    /\ pos <= Len(subfolders)
    /\ BackIsFile(src, subfolders[pos])
    /\ pc' = "copy"
    /\ UNCHANGED << Tree, destKind, destFiles, status, fault, Locals, out, failed, Ghost >>

\* Line 65.
Copy ==
    /\ pc = "copy"
    /\ LET r == Copy2(src, destFiles, subfolders[pos], DestName(index, "png"))
       IN  /\ src' = r.src
           /\ destFiles' = r.dest
    /\ pc' = "resize"
    /\ UNCHANGED << srcKind, destKind, status, fault, Locals, out, failed, Ghost >>

\* Line 65, copy2 raising: the copy is missing or cut short.
CopyFails ==
    /\ pc = "copy"
    /\ \/ UNCHANGED destFiles
       \/ destFiles' = WriteFile(destFiles, DestName(index, "png"),
                                 Image(subfolders[pos], <<0, 0>>))
    /\ Raise("copy")
    /\ UNCHANGED << Tree, destKind, Locals, out, failed, Ghost >>

\* Lines 66-67: resize the copy in place, warn when that failed.
Resize ==
    /\ pc = "resize"
    /\ \E onPath \in SUBSET ToolNames, returncode \in { 0, 1 } :
         LET r == ResizeNearest(destFiles, DestName(index, "png"), TARGET_SIZE,
                                onPath, returncode)
         IN  /\ destFiles' = r.files
             /\ out' = out \o Warnings(r.ok, DestName(index, "png"))
             /\ failed' = IF r.ok THEN failed ELSE failed \cup { index }
    /\ pc' = "caption"
    /\ UNCHANGED << Tree, destKind, status, fault, Locals, Ghost >>

\* A mutant of TxtPath: the caption is named after the next index.
TxtPathNext(i) == DestName(i + 1, "txt")

\* Line 68: txt_path
TxtPath(i) == DestName(i, "txt")

\* A mutant of CaptionText: the caption ends with a line feed.
CaptionTextNewline == "pixback creature, back view, pixel art sprite\n"

\* Line 69: the text written
CaptionText == BACK_CAPTION

\* Lines 68-69.
Caption ==
    /\ pc = "caption"
    /\ destFiles' = WriteFile(destFiles, TxtPath(index), Text(CaptionText))
    /\ pc' = "advance"
    /\ UNCHANGED << Tree, destKind, status, fault, Locals, out, failed, Ghost >>

\* backs/ after a write_text to path that raised and left `left`.
AfterFailedWrite(files, path, left) ==
    IF left = "nofile" THEN files ELSE WriteFile(files, path, Text(left))

\* A mutant of CaptionFails: the exception is caught and the loop goes on.
CaptionFailsSwallowed ==
    /\ pc = "caption"
    /\ \E left \in FailedWrites :
         destFiles' = AfterFailedWrite(destFiles, TxtPath(index), left)
    /\ fault' = "caption"
    /\ pc' = "advance"
    /\ UNCHANGED << Tree, destKind, status, Locals, out, failed, Ghost >>

\* Line 69, write_text raising (disk full, permissions): nothing catches it.
CaptionFails ==
    /\ pc = "caption"
    /\ \E left \in FailedWrites :
         destFiles' = AfterFailedWrite(destFiles, TxtPath(index), left)
    /\ Raise("caption")
    /\ UNCHANGED << Tree, destKind, Locals, out, failed, Ghost >>

\* Lines 70-72: the progress line, then index and copied go up.
Advance ==
    /\ pc = "advance"
    /\ out' = Append(out, Line("progress", subfolders[pos], DestName(index, "png"), 0))
    /\ index' = index + 1
    /\ copied' = copied + 1
    /\ pos' = pos + 1
    /\ pc' = "loop"
    /\ UNCHANGED << Tree, destKind, destFiles, status, fault, subfolders, failed, Ghost >>

\* Lines 74-75: after the loop, the summary and return 0.
Finish ==
    /\ pc = "loop"
    /\ pos > Len(subfolders)
    /\ out' = Append(out, Line("summary", NoEntry, NoName, copied))
    /\ status' = "0"
    /\ pc' = "done"
    /\ UNCHANGED << Tree, destKind, destFiles, fault, Locals, failed, Ghost >>

\* What a run leaves in backs/, images apart: each file name with its text.
Outputs(files) == [f \in DOMAIN files |-> files[f].data]

\* Line 79, once more: the script is started again on the same trees.
RunAgain ==
    /\ pc = "done"
    /\ runs < MaxRuns
    /\ runs' = runs + 1
    /\ prev' = [status |-> status,
                 files |-> IF status = "0" THEN Outputs(destFiles) ELSE EmptyDir]
    /\ src0' = [kind |-> srcKind, tree |-> src]
    /\ pc' = "start"
    /\ status' = "none"
    /\ fault' = "none"
    /\ subfolders' = << >>
    /\ pos' = 0
    /\ index' = 0
    /\ copied' = 0
    /\ out' = << >>
    /\ failed' = {}
    /\ UNCHANGED << Tree, destKind, destFiles >>

Next ==
    \/ CheckSource
    \/ Clean
    \/ CleanFails
    \/ Mkdir
    \/ Enumerate
    \/ Skip
    \/ Enter
    \/ Copy
    \/ CopyFails
    \/ Resize
    \/ Caption
    \/ CaptionFails
    \/ Advance
    \/ Finish
    \/ RunAgain

Spec == Init /\ [][Next]_vars

(* ---------------------------------------------------------------- claims *)

\* The subfolders the claims call qualifying: directories directly under
\* graphics/pokemon with a regular file back.png directly inside.
Qualifying == { n \in DOMAIN src : src[n] = "dir_back" }
K == Cardinality(Qualifying)

\* back000i.png, back000i.txt written out, for i below ten.
Numbered(i, ext) == FileName("back", << 0, 0, 0, i >>, ext)
PairsUpTo(k) == { Numbered(i, ext) : i \in 1..k, ext \in { "png", "txt" } }

Returned0 == pc = "done" /\ status = "0"
InLoop == pc \in { "loop", "copy", "resize", "caption", "advance" }

\* C1: when main() returns 0, backs/ holds exactly back0001..back000K as .png
\* and .txt, K the number of qualifying subfolders; subfolders without a
\* top-level back.png give no file and take no index.
C1_ExactOutputs ==
    Returned0 =>
        /\ destKind = "dir"
        /\ DOMAIN destFiles = PairsUpTo(K)
        /\ index = K + 1

\* C1 witness: a run returned 0 with two qualifying subfolders, and a third
\* whose back.png lies only below mega/.
C1_Witness ==
    /\ Returned0
    /\ K = 2
    /\ \E n \in DOMAIN src : src[n] = "dir_mega"
    /\ DOMAIN destFiles = PairsUpTo(2)

\* C2: among the images written, a subfolder whose name sorts first has the
\* smaller index, and when main() returns 0 the i-th image comes from the
\* i-th qualifying subfolder in name order.
C2_OrderedIndices ==
    /\ InLoop \/ Returned0 =>
         \A i, j \in 1..9 :
             ( /\ Numbered(i, "png") \in DOMAIN destFiles
               /\ Numbered(j, "png") \in DOMAIN destFiles
               /\ StrLess(destFiles[Numbered(i, "png")].origin,
                          destFiles[Numbered(j, "png")].origin) ) => i < j
    /\ Returned0 =>
         \A i \in 1..K :
             LET from == destFiles[Numbered(i, "png")].origin
             IN  /\ from \in Qualifying
                 /\ Cardinality({ m \in Qualifying : StrLess(m, from) }) = i - 1

\* C2 witness: a run returned 0 where "10" and "2" both qualify, so that "10"
\* gave back0001.png and "2" gave back0002.png.
C2_Witness ==
    /\ Returned0
    /\ { <<49, 48>>, <<50>> } \subseteq Qualifying
    /\ destFiles[Numbered(1, "png")].origin = <<49, 48>>
    /\ destFiles[Numbered(2, "png")].origin = <<50>>

\* C3: with no source directory a run ends by returning 1, and no step taken
\* while the source directory is missing changes backs.
C3_MissingSource ==
    /\ [](pc = "done" /\ srcKind # "dir" => status = "1")
    /\ [][srcKind # "dir" => destKind' = destKind /\ destFiles' = destFiles]_vars

\* C3 witness: a run returned 1 with backs/ holding files.
C3_Witness ==
    /\ pc = "done"
    /\ status = "1"
    /\ srcKind # "dir"
    /\ destKind = "dir"
    /\ DOMAIN destFiles # {}

\* C4: once lines 46-49 are done backs/ exists and is empty, and from then
\* on it holds only files the run wrote, none of them a file from before.
C4_CleanedFirst ==
    /\ pc = "enumerate" => destKind = "dir" /\ DOMAIN destFiles = {}
    /\ InLoop \/ Returned0 =>
         /\ destKind = "dir"
         /\ DOMAIN destFiles \subseteq PairsUpTo(index)
         /\ \A f \in DOMAIN destFiles : destFiles[f].type # "stale"
    /\ pc \in { "loop", "copy" } => DOMAIN destFiles \subseteq PairsUpTo(copied)

\* C4 witness: the second run has just emptied a backs/ in which the first
\* run left files.
C4_Witness ==
    /\ pc = "enumerate"
    /\ runs = 2
    /\ prev.status = "0"
    /\ DOMAIN prev.files # {}
    /\ DOMAIN destFiles = {}

\* The warnings printed for the image of index i.
WarningsFor(i) ==
    { k \in DOMAIN out : out[k].kind = "warning" /\ out[k].name = Numbered(i, "png") }

\* C5: an item whose resize failed keeps its index, its copy at the sprite's
\* own size and its caption, and has exactly one warning; no other item has
\* a warning; the run goes on to return 0 with every qualifying subfolder
\* copied.
C5_ResizeNonFatal ==
    /\ \A i \in 1..9 :
         /\ Cardinality(WarningsFor(i)) = (IF i \in failed THEN 1 ELSE 0)
         /\ (i \in failed /\ i < index) =>
              /\ Numbered(i, "png") \in DOMAIN destFiles
              /\ destFiles[Numbered(i, "png")].size = SpriteSize
              /\ Numbered(i, "txt") \in DOMAIN destFiles
              /\ destFiles[Numbered(i, "txt")].data = BACK_CAPTION
    /\ failed \subseteq 1..index
    /\ (pc = "done" /\ srcKind = "dir" /\ fault = "none") =>
         /\ status = "0"
         /\ copied = K

\* C5 witness: the resize of the first item failed, the run went on to a
\* second item whose resize worked, and returned 0.
C5_Witness ==
    /\ Returned0
    /\ failed = { 1 }
    /\ copied >= 2
    /\ destFiles[Numbered(1, "png")].size = SpriteSize
    /\ destFiles[Numbered(2, "png")].size = TARGET_SIZE

\* C6: a run that returns 0 after a run that returned 0 leaves the file names
\* and texts the first one left, every caption being the caption literal.
C6_Idempotent ==
    (Returned0 /\ runs >= 2 /\ prev.status = "0") =>
        /\ Outputs(destFiles) = prev.files
        /\ \A f \in NamesWithExt(destFiles, "txt") :
               destFiles[f].data = "pixback creature, back view, pixel art sprite"

\* C6 witness: two runs returned 0 on a tree with qualifying subfolders, the
\* first of them started on a backs/ with leftovers.
C6_Witness ==
    /\ Returned0
    /\ runs = 2
    /\ prev.status = "0"
    /\ K >= 2
    /\ Numbered(2, "txt") \in DOMAIN prev.files

\* C7: in every state the source tree is what it was when the run started.
C7_SourceUnchanged ==
    src0 = [kind |-> srcKind, tree |-> src]

\* C7 witness: a run has copied, resized and captioned two sprites.
C7_Witness ==
    /\ Returned0
    /\ copied >= 2
    /\ \E i \in 1..2 : destFiles[Numbered(i, "png")].size = TARGET_SIZE

\* C8: at the top of the loop and when main() returns 0, backs/ holds
\* backNNNN.png exactly when it holds backNNNN.txt.
C8_Paired ==
    (pc = "loop" \/ Returned0) =>
        \A f \in DOMAIN destFiles :
            /\ f.ext = "png" => FileName(f.stem, f.num, "txt") \in DOMAIN destFiles
            /\ f.ext = "txt" => FileName(f.stem, f.num, "png") \in DOMAIN destFiles

\* C8 witness: the top of the loop with one pair written and a subfolder
\* still to come.
C8_Witness ==
    /\ pc = "loop"
    /\ copied = 1
    /\ pos <= Len(subfolders)
    /\ DOMAIN destFiles = PairsUpTo(1)

\* The state a failed caption write ends the run in, the caption's own path
\* left aside.
CaptionFaultState ==
    /\ status = "exception"
    /\ index = copied + 1
    /\ pos <= Len(subfolders)
    /\ Cardinality(LinesOf("progress")) = copied
    /\ LinesOf("summary") = {}
    /\ PairsUpTo(copied) \cup { Numbered(index, "png") } \subseteq DOMAIN destFiles
    /\ \A i \in 1..copied : destFiles[Numbered(i, "txt")].data = BACK_CAPTION
    /\ destFiles[Numbered(index, "png")].origin = subfolders[pos]

\* C9 as claimed: after a failed caption write for index i the run has
\* stopped without returning 0, and backs/ holds the pairs 1..i-1 and
\* back000i.png, with no caption for i.
C9_AsClaimed ==
    (pc = "done" /\ fault = "caption") =>
        /\ CaptionFaultState
        /\ DOMAIN destFiles = PairsUpTo(copied) \cup { Numbered(index, "png") }

\* C9 amended: as claimed, except that back000i.txt may be there, holding
\* whatever the failed write left of the caption.
C9_Amended ==
    (pc = "done" /\ fault = "caption") =>
        /\ CaptionFaultState
        /\ DOMAIN destFiles \ { Numbered(index, "txt") }
              = PairsUpTo(copied) \cup { Numbered(index, "png") }
        /\ Numbered(index, "txt") \in DOMAIN destFiles =>
              destFiles[Numbered(index, "txt")].data \in FailedWrites \ { "nofile" }

\* C9 witness: the caption write of the second item failed and left a cut
\* file.
C9_Witness ==
    /\ pc = "done"
    /\ fault = "caption"
    /\ index = 2
    /\ Numbered(2, "txt") \in DOMAIN destFiles
    /\ destFiles[Numbered(2, "txt")].data = "pixback creature"

\* C10: at the top of the loop index = copied + 1 and the images in backs/
\* are those numbered 1..copied; the count of the summary is the number of
\* pairs in backs/ and of progress lines, whatever the warnings.
C10_Counters ==
    /\ pc = "loop" =>
         /\ index = copied + 1
         /\ NamesWithExt(destFiles, "png") = { Numbered(i, "png") : i \in 1..copied }
    /\ Returned0 =>
         /\ LinesOf("summary") = { Len(out) }
         /\ out[Len(out)].n = copied
         /\ DOMAIN destFiles = PairsUpTo(out[Len(out)].n)
         /\ Cardinality(LinesOf("progress")) = out[Len(out)].n

\* C10 witness: a run returned 0 after two copies, one warning, and a
\* subfolder passed over between them.
C10_Witness ==
    /\ Returned0
    /\ copied = 2
    /\ Cardinality(LinesOf("warning")) = 1
    /\ Len(subfolders) = 3
    /\ ~BackIsFile(src, subfolders[2])

====
